---- MODULE Spec2Model ----
(***************************************************************************)
(* Model of src/rhreports/rhreports.py: the rhreports class, which draws   *)
(* a one-page report on a matplotlib figure and saves it as PDF.           *)
(*                                                                         *)
(* Coordinates are exact rationals in units of 1/1000 of the page (0.075   *)
(* is 75); Python's binary floating-point rounding is not modelled.        *)
(* A Python string is a sequence of glyphs; len() is Len().                *)
(***************************************************************************)
EXTENDS Integers, Sequences, FiniteSets, TLC

(* ----------------------------- bounds --------------------------------- *)
MaxInst == 2
MaxCalls == 3
MaxFields == 3
MaxCols == 2
MaxRows == 2
MaxTitleLen == 2

(* ------------------------ rational arithmetic ------------------------- *)
RECURSIVE GCD(_, _)
GCD(a, b) == IF b = 0 THEN a ELSE GCD(b, a % b)

Abs(n) == IF n < 0 THEN -n ELSE n

Norm(n, d) ==
    LET g == GCD(Abs(n), d)
    IN  [n |-> n \div g, d |-> d \div g]

I(k) == [n |-> k, d |-> 1]
RAdd(a, b) == Norm(a.n * b.d + b.n * a.d, a.d * b.d)
RSub(a, b) == Norm(a.n * b.d - b.n * a.d, a.d * b.d)
RMulI(a, k) == Norm(a.n * k, a.d)
RDivI(a, k) == Norm(a.n, a.d * k)
RLe(a, b) == a.n * b.d <= b.n * a.d
RLt(a, b) == a.n * b.d < b.n * a.d

(* ------------------------------ strings ------------------------------- *)
Glyphs == {"i", "W", "z"}
None == <<"None">>

RECURSIVE StrOfLen(_)
StrOfLen(k) == IF k = 0 THEN <<>> ELSE Append(StrOfLen(k - 1), "W")

SeqsUpTo(S, k) == UNION {[1..m -> S] : m \in 0..k}

Last(s) == s[Len(s)]

RECURSIVE SumSeq(_)
SumSeq(s) == IF s = <<>> THEN 0 ELSE s[1] + SumSeq(Tail(s))

RECURSIVE Without(_, _)
Without(s, e) ==
    IF s = <<>> THEN <<>>
    ELSE IF s[1] = e THEN Without(Tail(s), e)
    ELSE <<s[1]>> \o Without(Tail(s), e)

(* --------------------------- page constants --------------------------- *)
MarginTop == 75
MarginRight == 75
MarginBottom == 50
MarginLeft == 75
PageRight == 1000

(* ------------------------- drawing primitives ------------------------- *)
(* ax.text(x, y, s, ...): style is weight+fontsize, ha the alignment.     *)
Text(x, y, s, sty, ha) ==
    [kind |-> "text", x |-> x, y |-> y, x2 |-> x, s |-> s, sty |-> sty, ha |-> ha]

(* ax.axhline(y=y, xmin=xmin, xmax=xmax, color=color).                    *)
HLine(y, xmin, xmax, color) ==
    [kind |-> "hline", x |-> xmin, y |-> y, x2 |-> xmax, s |-> <<>>, sty |-> color, ha |-> "-"]

(* fig.add_axes([x, y, width, height]).                                   *)
Axes(x, y, w, h) == [x |-> x, y |-> y, w |-> w, h |-> h]

(* ------------------------------- state -------------------------------- *)
(* Figure 0 is the blank figure pyplot creates when savefig() finds no    *)
(* open figure; figure i >= 1 is self.fig of instance i.                  *)
Insts == 1..MaxInst
FigIds == 0..MaxInst

VARIABLES
    st,      \* st[i]: "new" (not constructed), "open", "closed" (plt.close(self.fig) ran)
    surf,    \* surf[f]: texts and lines drawn on the base axes of figure f
    axes,    \* axes[f]: sub-axes added to figure f
    figs,    \* pyplot's open figures, least to most recently activated
    files,   \* the documents written by save, in order
    ncalls,  \* number of method calls made so far
    last     \* the most recent call and its outcome

vars == <<st, surf, axes, figs, files, ncalls, last>>

Init ==
    /\ st = [i \in Insts |-> "new"]
    /\ surf = [f \in FigIds |-> <<>>]
    /\ axes = [f \in FigIds |-> <<>>]
    /\ figs = <<>>
    /\ files = <<>>
    /\ ncalls = 0
    /\ last = [op |-> "none", inst |-> 0, ok |-> TRUE, wasClosed |-> FALSE,
               nbefore |-> 0, abefore |-> 0, args |-> <<>>]

(* The record of a call: what was called on which instance with which     *)
(* arguments, whether it returned normally, and the sizes of the surface  *)
(* before it ran.                                                         *)
Call(op, i, ok, args) ==
    [op |-> op, inst |-> i, ok |-> ok, wasClosed |-> (st[i] = "closed"),
     nbefore |-> Len(surf[i]), abefore |-> Len(axes[i]), args |-> args]

(* A method can be called on a constructed instance only.                 *)
Exists(i) == st[i] # "new"

(* A method call that appended prims to the base axes and regs to the     *)
(* figure of instance i, then returned (ok) or raised (~ok).              *)
Draw(op, i, prims, regs, ok, args) ==
    /\ ncalls < MaxCalls
    /\ surf' = [surf EXCEPT ![i] = surf[i] \o prims]
    /\ axes' = [axes EXCEPT ![i] = axes[i] \o regs]
    /\ ncalls' = ncalls + 1
    /\ last' = Call(op, i, ok, args)
    /\ UNCHANGED <<st, figs, files>>

(* --------------------------- __init__ ---------------------------------- *)
(* plt.subplots() opens a new figure and makes it pyplot's current one.   *)
init(i) ==
    /\ st[i] = "new"
    /\ st' = [st EXCEPT ![i] = "open"]
    /\ figs' = Append(figs, i)
    /\ last' = [op |-> "init", inst |-> i, ok |-> TRUE, wasClosed |-> FALSE,
                nbefore |-> 0, abefore |-> 0, args |-> <<>>]
    /\ UNCHANGED <<surf, axes, files, ncalls>>

(* ----------------------------- save ------------------------------------ *)
(* plt.savefig() writes pyplot's current figure: the most recently        *)
(* activated open figure, or a new blank one when none is open.           *)
gcf_figs == IF figs = <<>> THEN <<0>> ELSE figs
gcf == Last(gcf_figs)

save(i) ==
    /\ Exists(i)
    /\ ncalls < MaxCalls
    /\ files' = Append(files, [inst |-> i, fig |-> gcf,
                               content |-> surf[gcf], regions |-> axes[gcf]])
    /\ figs' = Without(gcf_figs, i)
    /\ st' = [st EXCEPT ![i] = "closed"]
    /\ ncalls' = ncalls + 1
    /\ last' = Call("save", i, TRUE, <<>>)
    /\ UNCHANGED <<surf, axes>>

(* ---------------------------- add_text --------------------------------- *)
add_text_prims(xpos, ypos, txt) == <<Text(I(xpos), I(ypos), txt, "fontdict", "default")>>

add_text(i, xpos, ypos, txt) ==
    /\ Exists(i)
    /\ Draw("add_text", i, add_text_prims(xpos, ypos, txt), <<>>, TRUE,
         [xpos |-> xpos, ypos |-> ypos, txt |-> txt])

(* a sanity check that forgets the width                                  *)
SanityCheck_LeftOnly(x, width) == x <= PageRight

(* ------------------------ sanity check --------------------------------- *)
(* assert x + width <= 1                                                  *)
SanityCheck(x, width) == x + width <= PageRight

(* ---------------------------- set_title -------------------------------- *)
(* The renderer's measurement of the bold 24pt title, in data units of    *)
(* the base axes: the sum of the glyphs' advances ("z" stands for a       *)
(* zero-advance code point such as a combining mark).                     *)
GlyphAdvance == [g \in Glyphs |-> CASE g = "i" -> 11 [] g = "W" -> 40 [] OTHER -> 0]

RECURSIVE get_window_extent_width(_)
get_window_extent_width(title) ==
    IF title = <<>> THEN 0
    ELSE GlyphAdvance[title[1]] + get_window_extent_width(Tail(title))

(* the subtitle offset without the length correction                      *)
subtitle_xpos_Uncorrected(title) ==
    MarginLeft + get_window_extent_width(title)

subtitle_xpos(title) ==
    MarginLeft + get_window_extent_width(title) - 5 * Len(title)

set_title_prims(ypos, title, subtitle) ==
    <<Text(I(MarginLeft), I(ypos), title, "bold24", "default")>>
    \o (IF subtitle = None THEN <<>>
        ELSE <<Text(I(subtitle_xpos(title)), I(ypos), subtitle, "16", "default")>>)

set_title(i, ypos, title, subtitle) ==
    /\ Exists(i)
    /\ Draw("set_title", i, set_title_prims(ypos, title, subtitle), <<>>, TRUE,
         [ypos |-> ypos, title |-> title, subtitle |-> subtitle])

(* --------------------------- create_axes ------------------------------- *)
(* pos = <<left, bottom, width, height>>.  The assert and the division    *)
(* width/ncols both come before the first add_axes.                       *)
create_axes_ok(pos, ncols) == SanityCheck(pos[1], pos[3]) /\ ncols # 0

create_axes_regs(pos, ncols) ==
    IF ~create_axes_ok(pos, ncols) THEN <<>>
    ELSE LET colwidth == RDivI(I(pos[3]), ncols)
         IN  [k \in 1..ncols |->
                 Axes(RAdd(I(pos[1]), RMulI(colwidth, k - 1)), I(pos[2]), colwidth, I(pos[4]))]

create_axes(i, pos, ncols) ==
    /\ Exists(i)
    /\ Draw("create_axes", i, <<>>, create_axes_regs(pos, ncols),
         create_axes_ok(pos, ncols), [pos |-> pos, ncols |-> ncols])

(* ------------------------- set_demographics ---------------------------- *)
(* fields is the dict in insertion order: a sequence of <<key, value>>.   *)
Max(a, b) == IF a >= b THEN a ELSE b

strlen(fields) == [j \in 1..Len(fields) |-> Max(Len(fields[j][1]), Len(fields[j][2]))]

(* np.cumsum(strlen)[j-1] for the 1-based field j                         *)
cumsum(fields, j) == SumSeq(SubSeq(strlen(fields), 1, j))

(* x0 + cumsum[i-1]*colwidth, colwidth = (width-0.02)/sum(strlen).  The   *)
(* quotient is used only from the second field on, where the keys being   *)
(* distinct makes sum(strlen) positive.                                   *)
field_xpos(pos, fields, j) ==
    IF j = 1 THEN I(pos[1] + 10)
    ELSE RAdd(I(pos[1] + 10),
              RDivI(I(cumsum(fields, j - 1) * (pos[3] - 20)), SumSeq(strlen(fields))))

(* every field, the last included, left-aligned at its computed start     *)
field_prims_AllLeft(pos, fields, j) ==
    <<Text(field_xpos(pos, fields, j), I(pos[2] - 15), fields[j][1], "7", "left"),
      Text(field_xpos(pos, fields, j), I(pos[2] - 30), fields[j][2], "9", "left")>>

field_prims(pos, fields, j) ==
    IF Len(fields) > 1 /\ j = Len(fields)
    THEN <<Text(I(pos[1] + pos[3] - 10), I(pos[2] - 15), fields[j][1], "7", "right"),
           Text(I(pos[1] + pos[3] - 10), I(pos[2] - 30), fields[j][2], "9", "right")>>
    ELSE <<Text(field_xpos(pos, fields, j), I(pos[2] - 15), fields[j][1], "7", "left"),
           Text(field_xpos(pos, fields, j), I(pos[2] - 30), fields[j][2], "9", "left")>>

RECURSIVE fields_prims(_, _, _)
fields_prims(pos, fields, j) ==
    IF j > Len(fields) THEN <<>>
    ELSE field_prims(pos, fields, j) \o fields_prims(pos, fields, j + 1)

(* the strip without its bottom line                                      *)
set_demographics_prims_TopLineOnly(pos, fields) ==
    IF ~SanityCheck(pos[1], pos[3]) THEN <<>>
    ELSE <<HLine(I(pos[2]), I(pos[1]), I(pos[1] + pos[3]), "k")>>
         \o fields_prims(pos, fields, 1)

set_demographics_prims(pos, fields) ==
    IF ~SanityCheck(pos[1], pos[3]) THEN <<>>
    ELSE <<HLine(I(pos[2]), I(pos[1]), I(pos[1] + pos[3]), "k"),
           HLine(I(pos[2] - pos[4]), I(pos[1]), I(pos[1] + pos[3]), "k")>>
         \o fields_prims(pos, fields, 1)

set_demographics(i, pos, fields) ==
    /\ Exists(i)
    /\ Draw("set_demographics", i, set_demographics_prims(pos, fields), <<>>,
         SanityCheck(pos[1], pos[3]), [pos |-> pos, fields |-> fields])

(* --------------------------- create_table ------------------------------ *)
(* data is the nested dict in insertion order: a sequence of columns      *)
(* [key |-> header, rows |-> sequence of <<row key, value>>].             *)
B2I(b) == IF b THEN 1 ELSE 0

(* the column count without the row-header column                         *)
table_ncols_DataOnly(data, rowheader) == Len(data)

table_ncols(data, rowheader) == Len(data) + B2I(rowheader)

table_colwidth(pos, data, rowheader) == RDivI(I(pos[3]), table_ncols(data, rowheader))

(* x + off + k*colwidth                                                   *)
col_x(pos, cw, off, k) == RAdd(I(pos[1] + off), RMulI(cw, k))

header_prims(pos, data, rowheader, cw) ==
    [c \in 1..Len(data) |->
        Text(col_x(pos, cw, 15, (c - 1) + B2I(rowheader)), I(pos[2] - 30),
             data[c].key, "bold8", "left")]

(* one pass of the inner loop: 0-based column col, 0-based row            *)
cell_prims(pos, data, rowheader, cw, col, row) ==
    LET kv == data[col + 1].rows[row + 1]
        i  == col + B2I(rowheader)
    IN  (IF col = 0 /\ rowheader
         THEN <<Text(I(pos[1] + 10), I(pos[2] - 60 - row * 25), kv[1], "bold8", "default"),
                HLine(I(pos[2] - 69 - row * 25), I(pos[1]), col_x(pos, cw, 0, 1), "gray")>>
         ELSE <<>>)
        \o <<Text(col_x(pos, cw, 15, i), I(pos[2] - 60 - row * 25), kv[2], "8", "left"),
             HLine(I(pos[2] - 69 - row * 25), col_x(pos, cw, 10, i), col_x(pos, cw, 0, i + 1), "gray")>>

RECURSIVE column_prims(_, _, _, _, _, _)
column_prims(pos, data, rowheader, cw, col, row) ==
    IF row >= Len(data[col + 1].rows) THEN <<>>
    ELSE cell_prims(pos, data, rowheader, cw, col, row)
         \o column_prims(pos, data, rowheader, cw, col, row + 1)

RECURSIVE body_prims(_, _, _, _, _)
body_prims(pos, data, rowheader, cw, col) ==
    IF col >= Len(data) THEN <<>>
    ELSE column_prims(pos, data, rowheader, cw, col, 0)
         \o body_prims(pos, data, rowheader, cw, col + 1)

(* The loop variables as the loops leave them: col is the last column,    *)
(* row the last row of the last column that has a row; each is unbound    *)
(* (-1) when its loop body never ran.                                     *)
final_col(data) == Len(data) - 1

RECURSIVE final_row(_, _)
final_row(data, c) ==
    IF c = 0 THEN -1
    ELSE IF Len(data[c].rows) > 0 THEN Len(data[c].rows) - 1
    ELSE final_row(data, c - 1)

trailing_divider(pos, cw, col, row) ==
    HLine(I(pos[2] - 69 - row * 25), col_x(pos, cw, 10, col), col_x(pos, cw, 0, col + 1), "gray")

create_table_ok(pos, data, rowheader) ==
    /\ SanityCheck(pos[1], pos[3])
    /\ table_ncols(data, rowheader) # 0
    /\ final_col(data) >= 0
    /\ final_row(data, Len(data)) >= 0

create_table_prims(pos, data, rowheader) ==
    IF ~SanityCheck(pos[1], pos[3]) \/ table_ncols(data, rowheader) = 0 THEN <<>>
    ELSE LET cw == table_colwidth(pos, data, rowheader)
         IN  <<HLine(I(pos[2] - 10), I(pos[1]), I(pos[1] + pos[3]), "k")>>
             \o header_prims(pos, data, rowheader, cw)
             \o <<HLine(I(pos[2] - 40), I(pos[1]), I(pos[1] + pos[3]), "k")>>
             \o body_prims(pos, data, rowheader, cw, 0)
             \o (IF create_table_ok(pos, data, rowheader)
                 THEN <<trailing_divider(pos, cw, final_col(data), final_row(data, Len(data)))>>
                 ELSE <<>>)

create_table(i, pos, data, rowheader) ==
    /\ Exists(i)
    /\ Draw("create_table", i, create_table_prims(pos, data, rowheader), <<>>,
         create_table_ok(pos, data, rowheader),
         [pos |-> pos, data |-> data, rowheader |-> rowheader])

(* ---------------------------- set_footer ------------------------------- *)
(* data maps some of the positions to an entry                            *)
(* [type, content, src, height]; an optional key is <<>> when absent and  *)
(* <<v>> when present.  ypos is optional in the same way.                 *)
Positions == <<"left", "center", "right">>

(* The image files that exist, with im.shape = <<rows, columns>>;         *)
(* plt.imread raises for any other src and for None.                      *)
ImageFiles == {"logo.png", "banner.png"}
imread_shape(src) == IF src = "logo.png" THEN <<100, 300>> ELSE <<10, 200>>

footer_ypos(ypos) == IF ypos = <<>> THEN MarginBottom ELSE ypos[1]

footer_text_xpos(pos) ==
    CASE pos = "left" -> MarginLeft
      [] pos = "center" -> 500
      [] pos = "right" -> 1000 - MarginRight

footer_img_height(e, y) ==
    IF e.height # <<>> THEN I(e.height[1]) ELSE RDivI(I(1000 - MarginTop - y), 15)

footer_img_width(e, y) ==
    LET shape == imread_shape(e.src[1])
    IN  RDivI(RMulI(footer_img_height(e, y), shape[2]), shape[1])

footer_img_xpos(pos, width) ==
    CASE pos = "left" -> I(MarginLeft)
      [] pos = "center" -> RSub(I(500), RDivI(width, 2))
      [] pos = "right" -> RSub(I(1000 - MarginRight), width)

(* the outcome of one pass of the loop for an entry that is present       *)
footer_entry(pos, e, y) ==
    CASE e.type = "text" ->
            IF e.content = <<>>
            THEN [prims |-> <<>>, regs |-> <<>>, ok |-> FALSE]
            ELSE [prims |-> <<Text(I(footer_text_xpos(pos)), I(y), e.content[1], "x-small", pos)>>,
                  regs |-> <<>>, ok |-> TRUE]
      [] e.type = "img" ->
            IF e.src = <<>> \/ e.src[1] \notin ImageFiles
            THEN [prims |-> <<>>, regs |-> <<>>, ok |-> FALSE]
            ELSE LET width == footer_img_width(e, y)
                 IN  [prims |-> <<>>,
                      regs |-> <<Axes(footer_img_xpos(pos, width), I(y - 8), width,
                                      footer_img_height(e, y))>>,
                      ok |-> TRUE]
      [] OTHER -> [prims |-> <<>>, regs |-> <<>>, ok |-> TRUE]

RECURSIVE footer_loop(_, _, _)
footer_loop(data, y, k) ==
    IF k > Len(Positions) THEN [prims |-> <<>>, regs |-> <<>>, ok |-> TRUE]
    ELSE IF Positions[k] \notin DOMAIN data THEN footer_loop(data, y, k + 1)
    ELSE LET r == footer_entry(Positions[k], data[Positions[k]], y)
         IN  IF ~r.ok THEN r
             ELSE LET rest == footer_loop(data, y, k + 1)
                  IN  [prims |-> r.prims \o rest.prims, regs |-> r.regs \o rest.regs,
                       ok |-> rest.ok]

set_footer_result(data, ypos) == footer_loop(data, footer_ypos(ypos), 1)

set_footer(i, data, ypos) ==
    /\ Exists(i)
    /\ LET r == set_footer_result(data, ypos)
       IN  Draw("set_footer", i, r.prims, r.regs, r.ok, [data |-> data, ypos |-> ypos])

(* ============================ input sets =============================== *)
(* rectangles: inside the page, flush with its right edge, past it        *)
Rects == {<<100, 500, 800, 200>>, <<700, 500, 300, 100>>, <<800, 500, 300, 100>>}

DistinctKeys(f) == \A a, b \in 1..Len(f) : a # b => f[a][1] # f[b][1]

DemoKeys == {StrOfLen(k) : k \in 0..(MaxFields - 1)}
DemoVals == {<<>>, <<"i">>, StrOfLen(3)}
FieldSets == {f \in SeqsUpTo(DemoKeys \X DemoVals, MaxFields) : DistinctKeys(f)}

TableKeys == {StrOfLen(k) : k \in 1..MaxCols}
TableVals == {<<"i">>, StrOfLen(3)}
RowSeqs == {[r \in 1..m |-> <<StrOfLen(r), v>>] : m \in 0..MaxRows, v \in TableVals}
Columns == [key : TableKeys, rows : RowSeqs]
DistinctCols(d) == \A a, b \in 1..Len(d) : a # b => d[a].key # d[b].key
TableSpecs == {d \in SeqsUpTo(Columns, MaxCols) : DistinctCols(d)}

Titles == SeqsUpTo(Glyphs, MaxTitleLen)
Subtitles == {None, <<>>, <<"i">>}
TitleYs == {900}

FooterEntries ==
    [type : {"text"}, content : {<<>>, <<StrOfLen(1)>>}, src : {<<>>}, height : {<<>>}]
    \cup [type : {"img"}, content : {<<>>},
          src : {<<>>, <<"logo.png">>, <<"banner.png">>, <<"nofile.png">>},
          height : {<<>>, <<500>>}]
    \cup [type : {"table"}, content : {<<>>}, src : {<<>>}, height : {<<>>}]
FooterSpecs == UNION {[D -> FooterEntries] : D \in SUBSET {"left", "center", "right"}}
FooterYs == {<<>>, <<100>>}

(* the section under test is drawn on a report that holds at most one     *)
(* free text placed before it                                             *)
Fresh(i) == last.inst = i /\ last.op \in {"init", "add_text"}
FewTitles(i) ==
    /\ last.inst = i
    /\ last.op \in {"init", "add_text", "set_title"}
    /\ Cardinality({k \in 1..Len(surf[i]) : surf[i][k].sty = "bold24"}) < 2

(* ========================= specifications ============================== *)
(* Spec: the life cycle of up to MaxInst reports, every method, small     *)
(* arguments.                                                             *)
TwoFields == <<<<StrOfLen(1), StrOfLen(2)>>, <<StrOfLen(2), <<>>>>>>
OneCell == <<[key |-> StrOfLen(1), rows |-> <<<<StrOfLen(1), <<"i">>>>>>]>>
LeftText == [p \in {"left"} |->
                [type |-> "text", content |-> <<StrOfLen(1)>>, src |-> <<>>, height |-> <<>>]]
LcRects == {<<100, 500, 800, 200>>, <<800, 500, 300, 100>>}

Next ==
    \/ \E i \in Insts : init(i)
    \/ \E i \in Insts : save(i)
    \/ \E i \in Insts : add_text(i, 100, 800, StrOfLen(1))
    \/ \E i \in Insts, sub \in {None, <<"i">>} : set_title(i, 900, StrOfLen(1), sub)
    \/ \E i \in Insts, pos \in LcRects : create_axes(i, pos, 2)
    \/ \E i \in Insts, pos \in LcRects : set_demographics(i, pos, TwoFields)
    \/ \E i \in Insts, pos \in LcRects : create_table(i, pos, OneCell, TRUE)
    \/ \E i \in Insts : set_footer(i, LeftText, <<>>)

Spec == Init /\ [][Next]_vars

(* SpecLayout: one report, sequences of the calls that take a rectangle.  *)
NextLayout ==
    \/ init(1)
    \/ add_text(1, 100, 800, StrOfLen(1))
    \/ \E pos \in Rects, ncols \in {1, 2} : create_axes(1, pos, ncols)
    \/ \E pos \in Rects, fields \in {<<>>, TwoFields} : set_demographics(1, pos, fields)
    \/ \E pos \in Rects, rh \in BOOLEAN : create_table(1, pos, OneCell, rh)

SpecLayout == Init /\ [][NextLayout]_vars

(* SpecDemo: one report, one demographics strip over all field sets.      *)
NextDemo ==
    \/ init(1)
    \/ last.op = "init" /\ add_text(1, 100, 800, StrOfLen(1))
    \/ Fresh(1) /\ \E pos \in Rects, fields \in FieldSets : set_demographics(1, pos, fields)

SpecDemo == Init /\ [][NextDemo]_vars

(* SpecTable: one report, one table over all table specs.                 *)
NextTable ==
    \/ init(1)
    \/ last.op = "init" /\ add_text(1, 100, 800, StrOfLen(1))
    \/ Fresh(1) /\ \E pos \in Rects, data \in TableSpecs, rh \in BOOLEAN :
                      create_table(1, pos, data, rh)

SpecTable == Init /\ [][NextTable]_vars

(* SpecTitle: one report, up to two title blocks over all titles.         *)
NextTitle ==
    \/ init(1)
    \/ last.op = "init" /\ add_text(1, 100, 800, StrOfLen(1))
    \/ FewTitles(1) /\ \E y \in TitleYs, t \in Titles, sub \in Subtitles : set_title(1, y, t, sub)

SpecTitle == Init /\ [][NextTitle]_vars

(* SpecFooter: one report, the two methods that allocate sub-axes.        *)
NextFooter ==
    \/ init(1)
    \/ last.op = "init" /\ add_text(1, 100, 800, StrOfLen(1))
    \/ Fresh(1) /\ \E pos \in Rects, ncols \in 0..2 : create_axes(1, pos, ncols)
    \/ Fresh(1) /\ \E data \in FooterSpecs, y \in FooterYs : set_footer(1, data, y)

SpecFooter == Init /\ [][NextFooter]_vars

(* ============================== claims ================================= *)
(* what the most recent call appended to its report's base axes / figure  *)
Added == SubSeq(surf[last.inst], last.nbefore + 1, Len(surf[last.inst]))
AddedAxes == SubSeq(axes[last.inst], last.abefore + 1, Len(axes[last.inst]))

TakesRect(op) == op \in {"create_axes", "set_demographics", "create_table"}
PastPage(pos) == pos[1] + pos[3] > 1000

(* C1: a call of create_axes, set_demographics or create_table whose      *)
(* rectangle has left + width > 1 fails, and the failing call leaves      *)
(* every text, line and sub-region of the surface exactly as it was.      *)
C1_LayoutViolationAborts ==
    [][(TakesRect(last'.op) /\ PastPage(last'.args.pos) /\ ncalls' # ncalls)
         => (~last'.ok /\ surf' = surf /\ axes' = axes)]_vars

C1_Witness ==
    /\ TakesRect(last.op)
    /\ PastPage(last.args.pos)
    /\ ~last.ok
    /\ Len(surf[1]) > 0
    /\ Len(axes[1]) > 0

(* C2: every call made on a report after its save fails with an error,   *)
(* and no figure is exported more than once.                              *)
C2_ClosedReportRejectsCalls ==
    /\ (last.op \notin {"none", "init"} /\ last.wasClosed) => ~last.ok
    /\ \A a, b \in 1..Len(files) :
          (a # b /\ files[a].fig # 0) => files[a].fig # files[b].fig

(* C3: save on a report writes exactly what was drawn on that report's    *)
(* own surface, whatever was done with the other reports.                 *)
C3_SaveWritesOwnSurface ==
    last.op = "save" =>
        /\ files[Len(files)].content = surf[last.inst]
        /\ files[Len(files)].regions = axes[last.inst]

(* C4: every sub-region allocated on a page, by create_axes or by         *)
(* set_footer for an image, satisfies left + width <= 1.                  *)
C4_RegionsInsidePage ==
    \A f \in FigIds : \A k \in 1..Len(axes[f]) :
        RLe(RAdd(axes[f][k].x, axes[f][k].w), I(1000))

(* C5: a set_footer call that returns normally has drawn one element for  *)
(* every position present in its spec; an entry of unknown type or an     *)
(* image entry without src makes the call fail.                           *)
C5_FooterNeverSkips ==
    (last.op = "set_footer" /\ last.ok) =>
        /\ Len(Added) + Len(AddedAxes) = Cardinality(DOMAIN last.args.data)
        /\ \A p \in DOMAIN last.args.data :
              /\ last.args.data[p].type \in {"text", "img"}
              /\ last.args.data[p].type = "img" => last.args.data[p].src # <<>>

(* C6: with at least two fields the label and the value of the last field *)
(* are right-aligned at left + width - 0.01; a single field is            *)
(* left-aligned at left + 0.01.                                           *)
C6_LastFieldRightAligned ==
    (last.op = "set_demographics" /\ last.ok) =>
        LET f   == last.args.fields
            n   == Len(f)
            pos == last.args.pos
        IN  /\ Len(Added) = 2 + 2 * n
            /\ n >= 2 =>
                 \A k \in {2 * n + 1, 2 * n + 2} :
                    /\ Added[k].kind = "text"
                    /\ Added[k].s = f[n][k - 2 * n]
                    /\ Added[k].x = I(pos[1] + pos[3] - 10)
                    /\ Added[k].ha = "right"
            /\ n = 1 =>
                 \A k \in {3, 4} :
                    /\ Added[k].kind = "text"
                    /\ Added[k].s = f[1][k - 2]
                    /\ Added[k].x = I(pos[1] + 10)
                    /\ Added[k].ha = "left"

C6_Witness ==
    /\ last.op = "set_demographics"
    /\ last.ok
    /\ last.nbefore > 0
    /\ Len(last.args.fields) >= 3
    /\ Len(last.args.fields[Len(last.args.fields)][2]) = 3
    /\ Len(last.args.fields[1][1]) = 0

(* C7: for an empty fields mapping and a rectangle inside the page,       *)
(* set_demographics returns normally having added exactly two horizontal  *)
(* lines and no text.                                                     *)
C7_EmptyFieldsTwoLines ==
    (last.op = "set_demographics" /\ last.args.fields = <<>> /\ ~PastPage(last.args.pos)) =>
        /\ last.ok
        /\ Len(Added) = 2
        /\ \A k \in 1..Len(Added) : Added[k].kind = "hline"
        /\ AddedAxes = <<>>

C7_Witness ==
    /\ last.op = "set_demographics"
    /\ last.args.fields = <<>>
    /\ last.ok
    /\ last.nbefore > 0

(* the 1-based index, among the elements a create_table call appends, of  *)
(* the cell text of column c (1-based), row r (1-based)                   *)
per_row(c, rowheader) == IF c = 1 /\ rowheader THEN 4 ELSE 2

RECURSIVE prims_before_col(_, _, _)
prims_before_col(data, rowheader, c) ==
    IF c = 1 THEN Len(data) + 2
    ELSE prims_before_col(data, rowheader, c - 1)
         + per_row(c - 1, rowheader) * Len(data[c - 1].rows)

CellIndex(data, rowheader, c, r) ==
    prims_before_col(data, rowheader, c) + (r - 1) * per_row(c, rowheader)
    + per_row(c, rowheader) - 1

(* left + off + k * width / ncols, as an exact rational                   *)
ColumnEdge(pos, ncols, off, k) == RAdd(I(pos[1] + off), Norm(k * pos[3], ncols))

(* C8: every column is width / (columns + rowheader) wide: the header     *)
(* label and every cell value of data column c are placed at              *)
(* left + 0.015 + (c + rowheader) * colWidth.                             *)
C8_EqualColumnWidths ==
    (/\ last.op = "create_table"
     /\ ~PastPage(last.args.pos)
     /\ Len(last.args.data) + B2I(last.args.rowheader) > 0) =>
        LET data  == last.args.data
            rh    == last.args.rowheader
            pos   == last.args.pos
            ncols == Len(data) + B2I(rh)
        IN  \A c \in 1..Len(data) :
               /\ Added[1 + c].kind = "text"
               /\ Added[1 + c].s = data[c].key
               /\ Added[1 + c].x = ColumnEdge(pos, ncols, 15, (c - 1) + B2I(rh))
               /\ \A r \in 1..Len(data[c].rows) :
                     /\ Added[CellIndex(data, rh, c, r)].kind = "text"
                     /\ Added[CellIndex(data, rh, c, r)].s = data[c].rows[r][2]
                     /\ Added[CellIndex(data, rh, c, r)].x
                           = ColumnEdge(pos, ncols, 15, (c - 1) + B2I(rh))

C8_Witness ==
    /\ last.op = "create_table"
    /\ last.ok
    /\ last.args.rowheader
    /\ last.nbefore > 0
    /\ Len(last.args.data) = 2
    /\ Len(last.args.data[1].rows) = 2
    /\ Len(last.args.data[2].rows) = 2
    /\ last.args.data[1].rows[2][2] # last.args.data[2].rows[2][2]

(* the title blocks on report 1: a bold 24pt text followed by its 16pt    *)
(* subtitle                                                               *)
TitleBlocks ==
    {a \in 1..(Len(surf[1]) - 1) : surf[1][a].sty = "bold24" /\ surf[1][a + 1].sty = "16"}

(* C9 as stated: one text without subtitle, two with; the subtitle's x is *)
(* strictly greater than the title's measured right edge minus            *)
(* 0.005*len(title), and for a fixed subtitle it increases with the       *)
(* length of the title.                                                   *)
C9_SubtitleStrictlyRightOfEdge ==
    /\ last.op = "set_title" =>
          /\ last.args.subtitle = None =>
                (Len(Added) = 1 /\ Added[1].x = I(MarginLeft))
          /\ last.args.subtitle # None =>
                /\ Len(Added) = 2
                /\ RLt(RAdd(Added[1].x, I(get_window_extent_width(last.args.title)
                                          - 5 * Len(last.args.title))),
                       Added[2].x)
    /\ \A a, b \in TitleBlocks :
          (surf[1][a + 1].s = surf[1][b + 1].s /\ Len(surf[1][a].s) < Len(surf[1][b].s))
             => RLt(surf[1][a + 1].x, surf[1][b + 1].x)

(* C9 amended: one text without subtitle, two with; the subtitle's x      *)
(* equals the title's x plus its measured width minus 0.005*len(title),   *)
(* so between two titles it changes by the difference of the measured     *)
(* widths minus 0.005 per extra character.                                *)
C9_SubtitleAtCorrectedEdge ==
    /\ last.op = "set_title" =>
          /\ Added[1].kind = "text" /\ Added[1].s = last.args.title
          /\ Added[1].x = I(MarginLeft)
          /\ last.args.subtitle = None => Len(Added) = 1
          /\ last.args.subtitle # None =>
                /\ Len(Added) = 2
                /\ Added[2].kind = "text" /\ Added[2].s = last.args.subtitle
                /\ Added[2].x = RAdd(Added[1].x, I(get_window_extent_width(last.args.title)
                                                   - 5 * Len(last.args.title)))
    /\ \A a, b \in TitleBlocks :
          RSub(surf[1][b + 1].x, surf[1][a + 1].x)
             = I((get_window_extent_width(surf[1][b].s) - get_window_extent_width(surf[1][a].s))
                 - 5 * (Len(surf[1][b].s) - Len(surf[1][a].s)))

C9_Witness ==
    /\ last.op = "set_title"
    /\ last.args.subtitle # None
    /\ Len(last.args.title) = 2
    /\ Cardinality(TitleBlocks) = 2
    /\ \E a, b \in TitleBlocks :
          Len(surf[1][a].s) < Len(surf[1][b].s) /\ RLt(surf[1][b + 1].x, surf[1][a + 1].x)

(* C10: for data with at least one column and one row per column,         *)
(* create_table ends with exactly one trailing divider, spanning the      *)
(* rightmost data column at the last row's offset, with and without a     *)
(* row header.                                                            *)
C10_TrailingDividerClosesLastColumn ==
    (/\ last.op = "create_table"
     /\ ~PastPage(last.args.pos)
     /\ Len(last.args.data) >= 1
     /\ \A c \in 1..Len(last.args.data) : Len(last.args.data[c].rows) >= 1) =>
        LET data  == last.args.data
            rh    == last.args.rowheader
            pos   == last.args.pos
            n     == Len(data)
            ncols == n + B2I(rh)
            lastRow == Len(data[n].rows) - 1
            d     == Added[Len(Added)]
        IN  /\ last.ok
            /\ Len(Added) = prims_before_col(data, rh, n + 1) + 1
            /\ d.kind = "hline"
            /\ d.y = I(pos[2] - 69 - lastRow * 25)
            /\ d.x = ColumnEdge(pos, ncols, 10, (n - 1) + B2I(rh))
            /\ d.x2 = ColumnEdge(pos, ncols, 0, n + B2I(rh))

====
